---- MODULE Spec2Model ----
(***************************************************************************)
(* Model of the pension assistant's query orchestration:                   *)
(*   - the LangGraph workflow of server/app/workflow.py (supervisor,       *)
(*     specialists, visualizer, summarizer) for one run      -> Spec       *)
(*   - the request context of server/app/tools/tools.py under several      *)
(*     /prompt requests                                       -> SpecCtx   *)
(*   - the tools of server/app/tools/tools.py with the role-scope          *)
(*     resolver, called inside and outside a /prompt request  -> SpecTools *)
(*   - single functions applied to drawn inputs: the ML service (SpecML),  *)
(*     document retrieval (SpecRetrieval), the pension projection and its  *)
(*     chart (SpecProjection), the supervisor chain (SpecRouting), the     *)
(*     role resolver (SpecResolver), the summarizer's gate (SpecSummary)   *)
(* A query is a sequence of word tokens; keyword scans and regular         *)
(* expressions are evaluated on the tokens as the code evaluates them on   *)
(* the text (lower-casing, substring containment, word boundaries).        *)
(***************************************************************************)
EXTENDS Integers, Sequences, FiniteSets, TLC

VARIABLES
    \* ---- workflow run: AgentState and the engine's position ----
    messages,            \* AgentState.messages: sequence of [role, content]
    next,                \* AgentState.next
    intermediate_steps,  \* AgentState.intermediate_steps: sequence of [tool, obs]
    turns,               \* AgentState.turns
    charts,              \* AgentState.charts: set of chart names
    chart_images,        \* AgentState.chart_images: set of chart names
    final_response,      \* AgentState.final_response: <<>> or <<record>>
    pc,                  \* node the engine runs next, "END" or "ERROR"
    supersteps,          \* number of node executions so far
    last_node,           \* node executed last ("START" before the first)
    vis_runs,            \* executions of the visualizer node
    invoked,             \* tool invocations of the run, in invocation order
    sup_seen,            \* intermediate_steps as seen at the last supervisor entry
    \* ---- request context (module globals and context variables) ----
    ctx_user,            \* _user_id_context, one value per request task
    ctx_query,           \* _query_context, one value per request task
    g_user,              \* _current_user_id (module-level fallback)
    g_query,             \* _current_query (module-level fallback)
    req,                 \* per request: [caller, query, phase]
    last_get,            \* last context read: [req, kind, val] or NoGet
    \* ---- database and tool calls ----
    advisor_clients,     \* rows of advisor_clients: set of <<advisor, resident>>
    call,                \* tool call in progress: [tool, arg, query, phase, out] or NoCall
    open_sessions,       \* database sessions opened by tools and not closed
    \* ---- functions applied to a stored record ----
    fn_in,               \* the arguments: a record, or NoInput
    fn_out               \* what the last application gave: a record, or NoOutput

flowVars == <<messages, next, intermediate_steps, turns, charts, chart_images,
              final_response, pc, supersteps, last_node, vis_runs, invoked, sup_seen>>
ctxVars  == <<ctx_user, ctx_query, g_user, g_query, req, last_get>>
toolVars == <<advisor_clients, call, open_sessions>>
fnVars   == <<fn_in, fn_out>>
vars     == <<flowVars, ctxVars, toolVars, fnVars>>

None == "None"

(***************************************************************************)
(* Text: tokens, lower-casing, substring and word matching                 *)
(***************************************************************************)

\* str.lower() on a token
LowerTable ==
    "Chart" :> "chart" @@ "Pray" :> "pray" @@ "Show" :> "show" @@ "User" :> "user"

Lower(t) == IF t \in DOMAIN LowerTable THEN LowerTable[t] ELSE t

\* the keywords that occur inside a (lower-case) token as a substring
SubstringTable ==
    "charts" :> {"chart"} @@ "visualize" :> {"visual", "visualize"} @@
    "showing" :> {"show"} @@ "documents" :> {"document"} @@
    "plans" :> {"plan"} @@ "plotted" :> {"plot"}

Substrings(t) == IF t \in DOMAIN SubstringTable THEN SubstringTable[t] \cup {t} ELSE {t}

\* `kw in text.lower()` for a one-word keyword
ContainsKeyword(q, kw) == \E i \in 1..Len(q) : kw \in Substrings(Lower(q[i]))

\* `phrase in text.lower()` for a two-word keyword "a b": a token ending in a
\* followed by a token starting with b
ContainsPhrase(q, a, b) ==
    \E i \in 1..(Len(q) - 1) : Lower(q[i]) = a /\ Lower(q[i + 1]) = b

\* re.search(r'\b(w1|w2|...)\b', text.lower()) for one-word alternatives
MatchesWord(q, words) == \E i \in 1..Len(q) : Lower(q[i]) \in words

\* ... for two-word alternatives such as "day trading"
MatchesPhrase(q, phrases) ==
    \E i \in 1..(Len(q) - 1) : <<Lower(q[i]), Lower(q[i + 1])>> \in phrases

(***************************************************************************)
(* Content gate of the supervisor node                                     *)
(***************************************************************************)

ReligiousWords ==
    {"pray", "prayer", "god", "jesus", "allah", "buddha", "hindu", "islam", "christian",
     "jewish", "religious", "spiritual", "faith", "blessing", "divine", "heaven", "hell",
     "amen", "hallelujah", "om", "namaste", "shalom", "salaam",
     "church", "mosque", "temple", "synagogue", "worship", "meditation"}

PoliticalWords ==
    {"democrat", "republican", "liberal", "conservative", "left", "right", "wing", "party",
     "election", "vote", "campaign", "politician", "senator", "congress", "president",
     "government", "administration", "policy", "legislation", "bill", "law", "regulation",
     "progressive", "moderate", "radical", "extremist", "activist", "protest", "rally"}

\* tokens matched by r'\bpolitic\w*\b'
PoliticStarWords == {"politic", "political", "politics", "politician", "politically"}

InvestmentWords ==
    {"buy", "sell", "hold", "stock", "shares", "equity", "market", "timing", "entry", "exit",
     "position", "portfolio", "allocation", "momentum", "value", "growth", "dividend",
     "yield", "cryptocurrency", "bitcoin", "ethereum", "blockchain", "ico", "token", "coin",
     "property", "mortgage", "loan", "credit", "debt", "leverage", "startup", "ipo",
     "merger", "acquisition"}

InvestmentPhrases ==
    {<<"day", "trading">>, <<"swing", "trading">>, <<"real", "estate">>, <<"hedge", "fund">>,
     <<"private", "equity">>, <<"venture", "capital">>}

\* the category scan of supervisor_node: religious, political, investment_strategy
GateMatches(q) ==
    \/ MatchesWord(q, ReligiousWords)
    \/ MatchesWord(q, PoliticalWords \cup PoliticStarWords)
    \/ MatchesWord(q, InvestmentWords)
    \/ MatchesPhrase(q, InvestmentPhrases)

GuardrailResponse == <<"[guardrail refusal]">>

(***************************************************************************)
(* Workflow state helpers                                                  *)
(***************************************************************************)

Specialists == {"risk_analyst", "fraud_detector", "projection_specialist"}

Nodes == Specialists \cup {"supervisor", "visualizer", "summarizer"}

\* class Router: the values the structured LLM output can take
RouterValues ==
    {"risk_analyst", "fraud_detector", "projection_specialist", "summarizer", "visualizer",
     "FINISH"}

\* tools a specialist is seen to invoke in a run of the workflow model
FlowTools == {"project_pension", "analyze_risk_profile", "detect_fraud", "query_knowledge_base"}

\* an observation either carries the top-level fields the visualizer charts
\* (current_data + projection_analysis, risk_score, fraud_score) or it does not
\* (an {"error": ...} result, or a result that nests its scores)
ObsKinds == {"chartable", "plain"}

\* most tool calls one specialist makes in one execution
MaxToolCalls == 2

StepValues == [tool : FlowTools, obs : ObsKinds]

StepSeqs == UNION {[1..n -> StepValues] : n \in 0..MaxToolCalls}

Msg(role, content) == [role |-> role, content |-> content]

\* the first HumanMessage's content, "" when there is none
FirstHumanContent(msgs) ==
    LET idx == {i \in 1..Len(msgs) : msgs[i].role = "human"}
    IN IF idx = {} THEN <<>> ELSE msgs[CHOOSE i \in idx : \A j \in idx : i <= j].content

\* the latest HumanMessage's content, None when there is none
LastHumanContent(msgs) ==
    LET idx == {i \in 1..Len(msgs) : msgs[i].role = "human"}
    IN IF idx = {} THEN <<>> ELSE msgs[CHOOSE i \in idx : \A j \in idx : i >= j].content

IsPrefix(s, t) == Len(s) <= Len(t) /\ \A i \in 1..Len(s) : s[i] = t[i]

\* graph.invoke without a config: the engine's default recursion limit
RecursionLimit == 25

\* `if new_turns >= 5`
TurnCap == 5

(***************************************************************************)
(* Supervisor chain (agents/supervisor.py) and supervisor node             *)
(***************************************************************************)

\* validate_query_content: the chain's own blocklist (no politic\w* pattern)
validate_query_content(q) ==
    ~ ( \/ MatchesWord(q, ReligiousWords)
        \/ MatchesWord(q, PoliticalWords)
        \/ MatchesWord(q, InvestmentWords)
        \/ MatchesPhrase(q, InvestmentPhrases) )

HasPdfKeyword(q) ==
    \/ \E kw \in {"uploaded", "document", "pdf", "plan", "policy"} : ContainsKeyword(q, kw)
    \/ ContainsPhrase(q, "this", "document")
    \/ ContainsPhrase(q, "my", "document")
    \/ ContainsPhrase(q, "pension", "plan")

EnhancedSupervisorRouterFirst(q, llm) ==
    IF ~ validate_query_content(q) THEN "FINISH"
    ELSE IF llm # "RAISE" THEN llm
    ELSE IF HasPdfKeyword(q) THEN "projection_specialist"
    ELSE "risk_analyst"

\* enhanced_supervisor_with_guardrails; llm is the router's answer or "RAISE"
enhanced_supervisor_with_guardrails(q, llm) ==
    IF HasPdfKeyword(q) THEN "projection_specialist"
    ELSE IF ~ validate_query_content(q) THEN "FINISH"
    ELSE IF llm # "RAISE" THEN llm
    ELSE IF \E w \in {"pension", "retirement", "savings", "growth"} : ContainsKeyword(q, w)
         THEN "projection_specialist"
    ELSE "risk_analyst"

HasTool(steps, tool) == \E i \in 1..Len(steps) : steps[i].tool = tool

HasVisualizationData == charts # {} \/ chart_images # {}

\* should_visualize of the supervisor's second pass
ShouldVisualize(q, steps) ==
    LET has_projection == HasTool(steps, "project_pension")
        has_risk == HasTool(steps, "analyze_risk_profile")
        has_fraud == HasTool(steps, "detect_fraud")
        has_financial_modeling == HasTool(steps, "project_pension")
        chart == ContainsKeyword(q, "chart")
        graph == ContainsKeyword(q, "graph")
        visual == ContainsKeyword(q, "visual")
    IN \/ chart \/ graph \/ visual
       \/ ContainsKeyword(q, "visualize")
       \/ ContainsPhrase(q, "show", "me")
       \/ ContainsKeyword(q, "display")
       \/ ContainsKeyword(q, "plot")
       \/ \E w \in {"chart", "graph", "visual", "show", "display", "plot"} :
             ContainsKeyword(q, w)
       \/ (has_projection /\ (chart \/ graph \/ visual))
       \/ (has_risk /\ (chart \/ graph))
       \/ (has_fraud /\ (chart \/ graph))
       \/ (has_financial_modeling /\ (chart \/ graph \/ visual))

TurnBudgetSpentOffByOne(new_turns) == new_turns > TurnCap

TurnBudgetSpent(new_turns) == new_turns >= TurnCap

ConditionalEdgeFinishToSpecialist(n) == IF n = "FINISH" THEN "risk_analyst" ELSE n

\* the conditional edges out of the supervisor
ConditionalEdge(n) == IF n = "FINISH" THEN "END" ELSE n

NodeEdgeSkippingSupervisor(n) ==
    IF n \in Specialists THEN "supervisor"
    ELSE IF n = "visualizer" THEN "summarizer"
    ELSE "END"

\* the fixed edges: specialists and visualizer -> supervisor, summarizer -> END
NodeEdge(n) ==
    IF n \in Specialists \cup {"visualizer"} THEN "supervisor" ELSE "END"

Executes(n) ==
    /\ pc = n
    /\ supersteps < RecursionLimit
    /\ supersteps' = supersteps + 1
    /\ last_node' = n
    /\ UNCHANGED <<ctxVars, toolVars, fnVars>>

supervisor_node ==
    /\ Executes("supervisor")
    /\ sup_seen' = intermediate_steps
    /\ LET q == FirstHumanContent(messages) IN
       IF HasVisualizationData THEN
            /\ next' = "summarizer"
            /\ UNCHANGED <<turns, messages, final_response>>
       ELSE IF intermediate_steps # <<>> THEN
            /\ next' = IF ShouldVisualize(q, intermediate_steps)
                       THEN "visualizer" ELSE "summarizer"
            /\ UNCHANGED <<turns, messages, final_response>>
       ELSE IF GateMatches(q) THEN
            /\ next' = "FINISH"
            /\ messages' = Append(messages, Msg("ai", GuardrailResponse))
            /\ final_response' = <<[summary |-> GuardrailResponse, charts |-> {},
                                    plotly_figs |-> {}, chart_images |-> {}]>>
            /\ UNCHANGED turns
       ELSE \E llm \in RouterValues \cup {"RAISE"} :
            LET next_value == enhanced_supervisor_with_guardrails(q, llm)
                new_turns == turns + 1
            IN /\ next' = IF TurnBudgetSpent(new_turns) THEN "FINISH" ELSE next_value
               /\ turns' = new_turns
               /\ UNCHANGED <<messages, final_response>>
    /\ pc' = ConditionalEdge(next')
    /\ UNCHANGED <<intermediate_steps, charts, chart_images, vis_runs, invoked>>

(***************************************************************************)
(* Specialist nodes (agent_node)                                           *)
(***************************************************************************)

ExtendStepsKeepingLast(old, new) == IF new = <<>> THEN old ELSE <<new[Len(new)]>>

\* new_intermediate_steps = list(state steps); new_intermediate_steps.extend(steps_result)
ExtendSteps(old, new) == old \o new

agent_node(n) ==
    /\ Executes(n)
    /\ IF LastHumanContent(messages) = <<>> THEN
            \* `if not last_user_text`: no agent is run
            /\ messages' = Append(messages, Msg("ai", <<"[no user message]">>))
            /\ UNCHANGED <<intermediate_steps, invoked>>
       ELSE \E steps_result \in StepSeqs, has_output \in BOOLEAN :
            LET new_intermediate_steps == ExtendSteps(intermediate_steps, steps_result)
                with_text == IF has_output
                             THEN Append(messages, Msg("ai", <<"[specialist answer]">>))
                             ELSE messages
            IN /\ invoked' = invoked \o steps_result
               /\ messages' = IF steps_result # <<>>
                              THEN Append(with_text, Msg("ai", <<"[tools executed]">>))
                              ELSE with_text
               /\ intermediate_steps' = IF new_intermediate_steps # <<>>
                                        THEN new_intermediate_steps
                                        ELSE intermediate_steps
    /\ pc' = NodeEdge(n)
    /\ UNCHANGED <<next, turns, charts, chart_images, final_response, vis_runs, sup_seen>>

(***************************************************************************)
(* Visualizer node                                                         *)
(***************************************************************************)

\* the first observation recorded for a tool (`... and risk_data is None`)
FirstObservation(steps, tool) ==
    LET idx == {i \in 1..Len(steps) : steps[i].tool = tool}
    IN IF idx = {} THEN None ELSE steps[CHOOSE i \in idx : \A j \in idx : i <= j].obs

\* state.get("wants_charts", False): AgentState has no such key
supervisor_wants_charts == FALSE

user_wants_charts(msgs) ==
    LET user_query == IF Len(msgs) > 0 THEN msgs[1].content ELSE <<>>
    IN \/ \E w \in {"graph", "chart", "visual", "display"} : ContainsKeyword(user_query, w)
       \/ ContainsPhrase(user_query, "show", "me")
       \/ supervisor_wants_charts

ChartsFor(steps) ==
    (IF FirstObservation(steps, "project_pension") = "chartable"
     THEN {"progress_to_goal", "pension_growth", "savings_analysis"} ELSE {})
    \cup (IF FirstObservation(steps, "analyze_risk_profile") = "chartable"
          THEN {"risk"} ELSE {})
    \cup (IF FirstObservation(steps, "detect_fraud") = "chartable"
          THEN {"fraud"} ELSE {})

visualizer_node ==
    /\ Executes("visualizer")
    /\ vis_runs' = vis_runs + 1
    /\ IF ~ user_wants_charts(messages) THEN
            /\ messages' = Append(messages, Msg("ai", <<"[analysis complete]">>))
            /\ UNCHANGED <<charts, chart_images>>
       ELSE \E png \in BOOLEAN :
            \* vegalite_to_png is best effort: every chart gets an image or none does
            LET new_charts == ChartsFor(intermediate_steps)
                new_images == IF png THEN new_charts ELSE {}
                m1 == Append(messages, Msg("ai", <<"[analysis complete with visualizations]">>))
                m2 == IF new_images # {} THEN Append(m1, Msg("ai", <<"[CHART_IMAGES]">>)) ELSE m1
                m3 == IF new_charts # {} THEN Append(m2, Msg("ai", <<"[PLOTLY_FIGS]">>)) ELSE m2
            IN /\ messages' = m3
               /\ charts' = IF new_charts # {} THEN new_charts ELSE charts
               /\ chart_images' = IF new_images # {} THEN new_images ELSE chart_images
    /\ pc' = NodeEdge("visualizer")
    /\ UNCHANGED <<next, intermediate_steps, turns, final_response, invoked, sup_seen>>

(***************************************************************************)
(* Summarizer node                                                         *)
(***************************************************************************)

summarizer_node ==
    /\ Executes("summarizer")
    /\ LET response == [summary |-> <<"[summary]">>, charts |-> charts,
                        plotly_figs |-> {}, chart_images |-> chart_images]
       IN /\ final_response' = <<response>>
          /\ messages' = Append(messages, Msg("ai", response.summary))
    /\ pc' = NodeEdge("summarizer")
    /\ UNCHANGED <<next, intermediate_steps, turns, charts, chart_images, vis_runs,
                   invoked, sup_seen>>

\* dict.get(key): None when the key is absent
DictGet(d, key) == IF key \in DOMAIN d THEN d[key] ELSE None

\* the PromptResponse process_prompt builds from the final state of the run
PromptResponse ==
    LET fr == IF final_response = <<>> THEN <<>> ELSE final_response[1]
    IN [summary |-> IF "summary" \in DOMAIN fr THEN fr["summary"]
                    ELSE <<"No summary available">>,
        chart_data |-> IF "charts" \in DOMAIN fr THEN fr["charts"] ELSE {},
        plotly_figures |-> IF "plotly_figs" \in DOMAIN fr THEN fr["plotly_figs"] ELSE {},
        chart_images |-> IF "chart_images" \in DOMAIN fr THEN fr["chart_images"] ELSE {},
        data_source |-> DictGet(fr, "data_source"),
        search_type |-> DictGet(fr, "search_type"),
        pdf_status |-> DictGet(fr, "pdf_status")]

\* the pdf_status values an observation of query_knowledge_base carries
PdfStatuses == {"PDFS_FOUND_AND_SEARCHED", "NO_PDFS_FOUND", "ERROR_OCCURRED"}

\* the engine gives up, and graph.invoke raises, once the recursion limit is
\* reached without arriving at END
GraphRecursionError ==
    /\ pc \in Nodes
    /\ supersteps >= RecursionLimit
    /\ pc' = "ERROR"
    /\ UNCHANGED <<messages, next, intermediate_steps, turns, charts, chart_images,
                   final_response, supersteps, last_node, vis_runs, invoked, sup_seen>>
    /\ UNCHANGED <<ctxVars, toolVars, fnVars>>

(***************************************************************************)
(* Request context (tools/tools.py) and the /prompt handler (main.py)      *)
(***************************************************************************)

\* Python None for a user id (ids are positive) and for a query
NoUser == 0

NoQuery == <<>>

Some(q) == <<q>>

\* the request tasks the server has in flight
Reqs == {1, 2}

\* getattr(threading.current_thread(), 'user_id', None): the attribute is set
\* only by set_current_user_id, which the server never reaches
thread_user_id == NoUser

thread_current_query == NoQuery

get_current_user_id_from_context(r) ==
    IF ctx_user[r] # NoUser THEN ctx_user[r]
    ELSE IF g_user # NoUser THEN g_user
    ELSE thread_user_id

get_current_query_from_context(r) ==
    IF ctx_query[r] # NoQuery THEN ctx_query[r]
    ELSE IF g_query # NoQuery THEN g_query
    ELSE thread_current_query

\* set_request_user_id(user_id)
set_request_user_id(r, user_id) ==
    /\ g_user' = user_id
    /\ ctx_user' = [ctx_user EXCEPT ![r] = user_id]

ClearOnlyContextVars(r) ==
    /\ ctx_user' = [ctx_user EXCEPT ![r] = NoUser]
    /\ ctx_query' = [ctx_query EXCEPT ![r] = NoQuery]
    /\ UNCHANGED <<g_user, g_query>>

\* clear_request_user_id()
clear_request_user_id(r) ==
    /\ g_user' = NoUser
    /\ g_query' = NoQuery
    /\ ctx_user' = [ctx_user EXCEPT ![r] = NoUser]
    /\ ctx_query' = [ctx_query EXCEPT ![r] = NoQuery]

\* process_prompt up to graph.invoke: only the user id is put in the context
process_prompt_enter(r) ==
    /\ req[r].phase = "new"
    /\ set_request_user_id(r, req[r].caller)
    /\ req' = [req EXCEPT ![r].phase = "running"]
    /\ UNCHANGED <<g_query, ctx_query>>

\* how process_prompt ends: it returns the PromptResponse ("done"), or an
\* exception of the workflow becomes HTTP 500 ("failed")
ExitPhases == {"done", "failed"}

\* process_prompt's finally block, on either exit path
process_prompt_exit(r) ==
    /\ req[r].phase = "running"
    /\ clear_request_user_id(r)
    /\ \E outcome \in ExitPhases : req' = [req EXCEPT ![r].phase = outcome]

NoGet == [req |-> 0, kind |-> "none", user |-> NoUser, query |-> NoQuery]

\* a tool running for request r reads the caller id from the context
tool_reads_user_id(r) ==
    /\ req[r].phase = "running"
    /\ last_get' = [req |-> r, kind |-> "user",
                    user |-> get_current_user_id_from_context(r), query |-> NoQuery]
    /\ UNCHANGED <<ctx_user, ctx_query, g_user, g_query, req>>

\* a tool running for request r reads the original query from the context
tool_reads_query(r) ==
    /\ req[r].phase = "running"
    /\ last_get' = [req |-> r, kind |-> "query", user |-> NoUser,
                    query |-> get_current_query_from_context(r)]
    /\ UNCHANGED <<ctx_user, ctx_query, g_user, g_query, req>>

(***************************************************************************)
(* Database: users, advisor_clients, pension_data                          *)
(***************************************************************************)

\* users.role by users.id; an id outside the domain has no row
UserRole ==
    1 :> "resident" @@ 2 :> "resident" @@ 3 :> "advisor" @@ 4 :> "regulator"
      @@ 5 :> "supervisor"

\* ids a tool argument or a query can name (6 has no users row)
UserIds == 1..6

\* user ids with a pension_data row
PensionRows == {1, 2, 3, 4}

\* the users a bearer token can authenticate (get_current_user finds the row)
Callers == {1, 3, 4, 5}

ClientPairChoices == SUBSET {<<3, 1>>, <<3, 2>>}

\* int(match.group(1)) on a token made of digits
IntOf ==
    "1" :> 1 @@ "2" :> 2 @@ "3" :> 3 @@ "4" :> 4 @@ "5" :> 5 @@ "6" :> 6 @@
    "10" :> 10 @@ "18" :> 18 @@ "62" :> 62

IsNumber(t) == t \in DOMAIN IntOf

ReqQueries ==
    { <<"my", "risk">>,
      <<"risk", "for", "User", "2">>,
      <<"client", "1">>,
      <<"2", "for", "user", "6">>,
      <<"user", "id", "3", "or", "1">>,
      <<"pension", "4">> }

Word(q, i, w) == i >= 1 /\ i <= Len(q) /\ Lower(q[i]) = w

\* the (\d+) group of pattern k of detect_role_based_context sits at token i
PatternMatchesAt(k, q, i) ==
    /\ IsNumber(q[i])
    /\ CASE k = 1 -> Word(q, i - 1, "id") /\ Word(q, i - 2, "user")
         [] k = 2 -> Word(q, i - 1, "id") /\ Word(q, i - 2, "user") /\ Word(q, i - 3, "for")
         [] k = 3 -> Word(q, i - 1, "user")
         [] k = 4 -> Word(q, i - 1, "client")
         [] k = 5 -> Word(q, i - 1, "user") /\ Word(q, i - 2, "for")
         [] k = 6 -> TRUE

NumPatterns == 6

\* re.search takes the leftmost match of a pattern (0: no match)
RECURSIVE SearchFrom(_, _, _)
SearchFrom(k, q, i) ==
    IF i > Len(q) THEN 0
    ELSE IF PatternMatchesAt(k, q, i) THEN i
    ELSE SearchFrom(k, q, i + 1)

\* the first pattern that matches decides
RECURSIVE DetectFrom(_, _)
DetectFrom(k, q) ==
    IF k > NumPatterns THEN NoUser
    ELSE LET i == SearchFrom(k, q, 1)
         IN IF i # 0 THEN IntOf[q[i]] ELSE DetectFrom(k + 1, q)

DetectedUserId(q) == DetectFrom(1, q)

IsClientOfOrUnknownUser(advisor, resident) ==
    <<advisor, resident>> \in advisor_clients \/ resident \notin DOMAIN UserRole

\* the AdvisorClient lookup of the advisor branch
IsClientOf(advisor, resident) == <<advisor, resident>> \in advisor_clients

\* detect_role_based_context(original_query, current_user_id, db)
detect_role_based_context(original_query, current_user_id) ==
    IF current_user_id \notin DOMAIN UserRole THEN <<current_user_id, "unknown">>
    ELSE
      LET current_role == UserRole[current_user_id]
          found == IF original_query # <<>> THEN DetectedUserId(original_query) ELSE NoUser
          detected_user_id == IF found = current_user_id THEN NoUser ELSE found
      IN IF current_role = "resident" THEN <<current_user_id, "self">>
         ELSE IF current_role = "advisor" THEN
              IF detected_user_id # NoUser /\ detected_user_id # current_user_id
              THEN IF IsClientOf(current_user_id, detected_user_id)
                   THEN <<detected_user_id, "client">>
                   ELSE <<current_user_id, "self">>
              ELSE <<current_user_id, "self">>
         ELSE IF current_role = "regulator" THEN
              IF detected_user_id # NoUser THEN <<detected_user_id, "client">>
              ELSE <<current_user_id, "self">>
         ELSE <<current_user_id, "unknown">>

(***************************************************************************)
(* Tools (tools/tools.py)                                                  *)
(***************************************************************************)

RiskFraudTools == {"analyze_risk_profile", "detect_fraud"}

DocumentTools == {"query_knowledge_base", "analyze_uploaded_document", "knowledge_base_search"}

PerUserTools == RiskFraudTools \cup {"project_pension"} \cup DocumentTools

AggregationTools ==
    {"analyze_system_wide_risk", "analyze_system_wide_fraud", "analyze_geographic_risk",
     "analyze_portfolio_trends"}

\* what a tool call did: the id it took for the caller, the pension_data row it
\* queried (NoUser: none), whether it read all rows, the user_{id}_docs
\* collection it queried (NoUser: none), whether it queried pension_knowledge,
\* and the kind of result it returned
Outcome(caller, read, all, coll, shared, result) ==
    [caller |-> caller, read |-> read, all |-> all, coll |-> coll, shared |-> shared,
     result |-> result]

\* `get_current_query_from_context() or ""`
OriginalQuery(r) ==
    LET oq == get_current_query_from_context(r)
    IN IF oq = NoQuery THEN <<>> ELSE oq[1]

PensionResult(user_id) == IF user_id \in PensionRows THEN "ok" ELSE "no_pension_data"

\* analyze_risk_profile and detect_fraud: the caller is the context's user id,
\* the user_id argument is parsed and not used
risk_fraud_tool(r, arg) ==
    LET current_user_id == get_current_user_id_from_context(r)
    IN IF current_user_id = NoUser
       THEN Outcome(NoUser, NoUser, FALSE, NoUser, FALSE, "User not authenticated. Please log in.")
       ELSE LET res == detect_role_based_context(OriginalQuery(r), current_user_id)
                final_user_id == IF res[2] \in {"client", "self"} THEN res[1]
                                 ELSE current_user_id
            IN Outcome(current_user_id, final_user_id, FALSE, NoUser, FALSE,
                       PensionResult(final_user_id))

\* project_pension: the user_id argument, when given, is taken for the caller
project_pension(r, arg) ==
    LET user_id == IF arg = NoUser THEN get_current_user_id_from_context(r) ELSE arg
    IN IF user_id = NoUser
       THEN Outcome(NoUser, NoUser, FALSE, NoUser, FALSE, "User not authenticated. Please log in.")
       ELSE LET res == detect_role_based_context(OriginalQuery(r), user_id)
                final_user_id == IF res[2] \in {"client", "self"} THEN res[1] ELSE user_id
            IN Outcome(user_id, final_user_id, FALSE, NoUser, FALSE,
                       PensionResult(final_user_id))

\* query_knowledge_base, analyze_uploaded_document, knowledge_base_search: the
\* resolver runs on the tool's query argument
document_tool(tool, r, arg, query) ==
    LET user_id == IF arg = NoUser THEN get_current_user_id_from_context(r) ELSE arg
    IN IF user_id = NoUser
       THEN Outcome(NoUser, NoUser, FALSE, NoUser, FALSE, "User not authenticated. Please log in.")
       ELSE LET res == detect_role_based_context(query, user_id)
                final_user_id == IF res[2] = "client" THEN res[1] ELSE user_id
            IN Outcome(user_id, NoUser, FALSE, final_user_id,
                       tool = "knowledge_base_search", "searched")

IsRegulatorOrAdvisor(user_id) ==
    user_id \in DOMAIN UserRole /\ UserRole[user_id] \in {"regulator", "advisor"}

\* `current_user and current_user.role == 'regulator'`
IsRegulator(user_id) == user_id \in DOMAIN UserRole /\ UserRole[user_id] = "regulator"

\* the four regulator-only tools
aggregation_tool(r) ==
    LET current_user_id == get_current_user_id_from_context(r)
    IN IF current_user_id = NoUser
       THEN Outcome(NoUser, NoUser, FALSE, NoUser, FALSE, "User not authenticated. Please log in.")
       ELSE IF ~ IsRegulator(current_user_id)
       THEN Outcome(current_user_id, NoUser, FALSE, NoUser, FALSE, "This tool is only available to regulators")
       ELSE Outcome(current_user_id, NoUser, TRUE, NoUser, FALSE,
                    IF PensionRows = {} THEN "no_system_data" ELSE "ok")

NoCall ==
    [tool |-> "none", arg |-> NoUser, query |-> <<>>, phase |-> "none",
     out |-> Outcome(NoUser, NoUser, FALSE, NoUser, FALSE, "none")]

\* most sessions left open that a behaviour is followed to
MaxOpenSessions == 2

\* db = SessionLocal(): every tool opens one session once the caller is known
SessionsOpened(tool, out) ==
    IF out.result = "User not authenticated. Please log in." THEN 0 ELSE 1

\* db.close() in a finally block: the three document tools have none
SessionsClosed(tool, out) ==
    IF tool \in DocumentTools THEN 0 ELSE SessionsOpened(tool, out)

\* `call` holds the tool call in progress
Called(tool, r, arg, query, out) ==
    /\ call = NoCall
    /\ call' = [tool |-> tool, arg |-> arg, query |-> query, phase |-> req[r].phase,
                out |-> out]
    /\ open_sessions' = open_sessions + SessionsOpened(tool, out) - SessionsClosed(tool, out)
    /\ open_sessions' <= MaxOpenSessions
    /\ UNCHANGED <<advisor_clients, ctxVars, flowVars, fnVars>>

call_risk_fraud_tool(r) ==
    \E tool \in RiskFraudTools, arg \in {NoUser} \cup UserIds :
        Called(tool, r, arg, <<>>, risk_fraud_tool(r, arg))

call_project_pension(r) ==
    \E arg \in {NoUser} \cup UserIds :
        Called("project_pension", r, arg, req[r].query, project_pension(r, arg))

call_document_tool(r) ==
    \E tool \in DocumentTools, arg \in {NoUser} \cup UserIds, query \in ReqQueries :
        Called(tool, r, arg, query, document_tool(tool, r, arg, query))

call_aggregation_tool(r) ==
    \E tool \in AggregationTools :
        Called(tool, r, NoUser, <<>>, aggregation_tool(r))

\* the tool's result goes back to the agent executor as an observation
tool_returns ==
    /\ call # NoCall
    /\ call' = NoCall
    /\ UNCHANGED <<advisor_clients, open_sessions, ctxVars, flowVars, fnVars>>

(***************************************************************************)
(* Specifications                                                          *)
(***************************************************************************)

FlowQueries ==
    { <<>>,
      <<"my", "pension">>,
      <<"Chart", "my", "pension">>,
      <<"plot", "my", "savings">>,
      <<"show", "my", "risk">>,
      <<"Show", "me", "fraud">>,
      <<"explain", "my", "plans">>,
      <<"should", "i", "Pray">>,
      <<"pension", "policy">>,
      <<"politics", "charts">>,
      <<"day", "trading">> }

FlowStart(q) ==
    /\ messages = <<Msg("human", q)>>
    /\ next = None
    /\ intermediate_steps = <<>>
    /\ turns = 0
    /\ charts = {}
    /\ chart_images = {}
    /\ final_response = <<>>
    /\ pc = "supervisor"
    /\ supersteps = 0
    /\ last_node = "START"
    /\ vis_runs = 0
    /\ invoked = <<>>
    /\ sup_seen = <<>>

\* no workflow run
FlowIdle ==
    /\ messages = <<>>
    /\ next = None
    /\ intermediate_steps = <<>>
    /\ turns = 0
    /\ charts = {}
    /\ chart_images = {}
    /\ final_response = <<>>
    /\ pc = "END"
    /\ supersteps = 0
    /\ last_node = "START"
    /\ vis_runs = 0
    /\ invoked = <<>>
    /\ sup_seen = <<>>

CtxStart(requests) ==
    /\ ctx_user = [r \in Reqs |-> NoUser]
    /\ ctx_query = [r \in Reqs |-> NoQuery]
    /\ g_user = NoUser
    /\ g_query = NoQuery
    /\ req = requests
    /\ last_get = NoGet

NoRequests == [r \in Reqs |-> [caller |-> 1, query |-> <<>>, phase |-> "none"]]

ToolsStart(pairs) ==
    /\ advisor_clients = pairs
    /\ call = NoCall
    /\ open_sessions = 0

NoInput == [kind |-> "none"]

NoOutput == [fn |-> "none"]

\* no function application
FnIdle ==
    /\ fn_in = NoInput
    /\ fn_out = NoOutput

\* one run of the workflow graph
Init ==
    /\ \E q \in FlowQueries : FlowStart(q)
    /\ CtxStart(NoRequests)
    /\ ToolsStart({})
    /\ FnIdle

Next ==
    \/ supervisor_node
    \/ \E n \in Specialists : agent_node(n)
    \/ visualizer_node
    \/ summarizer_node
    \/ GraphRecursionError

Spec == Init /\ [][Next]_vars

\* /prompt requests in flight together, each in its own task
InitCtx ==
    /\ FlowIdle
    /\ \E requests \in [Reqs -> [caller : Callers, query : ReqQueries, phase : {"new"}]] :
          CtxStart(requests)
    /\ ToolsStart({})
    /\ FnIdle

CtxStep(r) ==
    \/ process_prompt_enter(r) /\ UNCHANGED last_get
    \/ tool_reads_user_id(r)
    \/ tool_reads_query(r)
    \/ process_prompt_exit(r) /\ UNCHANGED last_get

NextCtx == \E r \in Reqs : CtxStep(r) /\ UNCHANGED <<flowVars, toolVars, fnVars>>

SpecCtx == InitCtx /\ [][NextCtx]_vars

\* tool calls made before, during and after one /prompt request
InitTools ==
    /\ FlowIdle
    /\ \E c \in Callers, q \in ReqQueries :
          CtxStart([r \in Reqs |-> IF r = 1 THEN [caller |-> c, query |-> q, phase |-> "new"]
                                   ELSE NoRequests[r]])
    /\ \E pairs \in ClientPairChoices : ToolsStart(pairs)
    /\ FnIdle

NextTools ==
    \/ process_prompt_enter(1) /\ UNCHANGED <<last_get, flowVars, toolVars, fnVars>>
    \/ process_prompt_exit(1) /\ UNCHANGED <<last_get, flowVars, toolVars, fnVars>>
    \/ call_risk_fraud_tool(1)
    \/ call_project_pension(1)
    \/ call_document_tool(1)
    \/ call_aggregation_tool(1)
    \/ tool_returns

SpecTools == InitTools /\ [][NextTools]_vars

(***************************************************************************)
(* ML predictions with rule-based fallback (ml_models.py)                  *)
(***************************************************************************)

\* a nullable column: <<>> for NULL (None), <<v>> for the value v
IsNull(x) == x = <<>>

\* what the service holds for a model: the attribute was never assigned
\* (`_init_` is not the constructor and load_models is not called), it is
\* None, it is loaded and its predict throws, or it is loaded and predicts
ModelStates == {"unset", "absent", "throws", "predicts"}

\* amounts in currency units; Volatility and Portfolio_Diversity_Score, like
\* every score below, in hundredths
MLUserData ==
    [Debt_Level : {<<>>, <<0>>, <<300>>, <<900>>},
     Annual_Income : {<<>>, <<0>>, <<400>>},
     Volatility : {<<>>, <<50>>, <<90>>},
     Portfolio_Diversity_Score : {<<>>, <<10>>, <<50>>}]

MLInputs == [kind : {"ml"}, user_data : MLUserData, model : ModelStates, prediction : 0..2]

NoMLResult ==
    [level |-> "none", score |-> 0, ml_model_used |-> FALSE, analysis_method |-> "none"]

\* a comparison or product with None raises TypeError
FallbackRaises(user_data) ==
    \/ IsNull(user_data.Debt_Level)
    \/ IsNull(user_data.Annual_Income)
    \/ IsNull(user_data.Volatility)
    \/ IsNull(user_data.Portfolio_Diversity_Score)

\* _fallback_risk_analysis on a record without NULLs
fallback_risk_analysis(user_data) ==
    LET s0 == 50
        s1 == IF 2 * user_data.Debt_Level[1] > user_data.Annual_Income[1] THEN s0 + 20 ELSE s0
        s2 == IF user_data.Volatility[1] > 70 THEN s1 + 15 ELSE s1
        s3 == IF user_data.Portfolio_Diversity_Score[1] < 30 THEN s2 + 10 ELSE s2
        risk_score == IF s3 < 100 THEN s3 ELSE 100
    IN [level |-> IF risk_score < 40 THEN "Low" ELSE IF risk_score > 70 THEN "High"
                  ELSE "Medium",
        score |-> risk_score, ml_model_used |-> FALSE,
        analysis_method |-> "Rule-based Fallback"]

\* _fallback_fraud_detection on a record without NULLs
fallback_fraud_detection(user_data) ==
    LET s0 == 30
        s1 == IF user_data.Debt_Level[1] > 2 * user_data.Annual_Income[1] THEN s0 + 30 ELSE s0
        s2 == IF user_data.Volatility[1] > 80 THEN s1 + 20 ELSE s1
        s3 == IF user_data.Portfolio_Diversity_Score[1] < 20 THEN s2 + 20 ELSE s2
        anomaly_score == IF s3 < 100 THEN s3 ELSE 100
    IN [level |-> IF anomaly_score > 60 THEN "High" ELSE "Low",
        score |-> anomaly_score, ml_model_used |-> FALSE,
        analysis_method |-> "Rule-based Fallback"]

\* the fallback is called in the try block ("absent") or in the except
\* handler ("unset", "throws"); when it raises in the try block the handler
\* calls it again, and what it raises in the handler leaves the method
Fallback(fn, user_data, fallback) ==
    IF FallbackRaises(user_data)
    THEN [fn |-> fn, raised |-> TRUE, ml_success |-> FALSE, result |-> NoMLResult]
    ELSE [fn |-> fn, raised |-> FALSE, ml_success |-> FALSE, result |-> fallback]

\* MLModelService.predict_risk
predict_risk(user_data, model, prediction) ==
    IF model = "predicts"
    THEN [fn |-> "predict_risk", raised |-> FALSE, ml_success |-> TRUE,
          result |-> [level |-> IF prediction = 0 THEN "Low"
                                ELSE IF prediction = 1 THEN "Medium" ELSE "High",
                      score |-> IF prediction = 0 THEN 20
                                ELSE IF prediction = 1 THEN 50 ELSE 80,
                      ml_model_used |-> TRUE,
                      analysis_method |-> "ML Model Prediction"]]
    ELSE Fallback("predict_risk", user_data, fallback_risk_analysis(user_data))

\* MLModelService.predict_fraud
predict_fraud(user_data, model, prediction) ==
    IF model = "predicts"
    THEN [fn |-> "predict_fraud", raised |-> FALSE, ml_success |-> TRUE,
          result |-> [level |-> IF prediction = 0 THEN "Low" ELSE "High",
                      score |-> IF prediction = 0 THEN 20 ELSE 80,
                      ml_model_used |-> TRUE,
                      analysis_method |-> "ML Model Prediction"]]
    ELSE Fallback("predict_fraud", user_data, fallback_fraud_detection(user_data))

apply_predict_risk ==
    /\ fn_in.kind = "ml"
    /\ fn_out' = predict_risk(fn_in.user_data, fn_in.model, fn_in.prediction)
    /\ UNCHANGED <<fn_in, flowVars, ctxVars, toolVars>>

apply_predict_fraud ==
    /\ fn_in.kind = "ml"
    /\ fn_out' = predict_fraud(fn_in.user_data, fn_in.model, fn_in.prediction)
    /\ UNCHANGED <<fn_in, flowVars, ctxVars, toolVars>>

\* predict_risk and predict_fraud applied to a stored record
InitML ==
    /\ FlowIdle
    /\ CtxStart(NoRequests)
    /\ ToolsStart({})
    /\ fn_in \in MLInputs
    /\ fn_out = NoOutput

NextML == apply_predict_risk \/ apply_predict_fraud

SpecML == InitML /\ [][NextML]_vars

(***************************************************************************)
(* Retrieval over the user's document collection (query_knowledge_base)    *)
(***************************************************************************)

\* query_collection(collection, query_texts, n_results=3)
NResults == 3

\* collection.query for one query text: one inner list per query text, so
\* `documents` is [[c1, ..., ck]] with 0 <= k <= n_results
query_collection(chunks) ==
    [documents |-> << [i \in 1..chunks |-> "chunk"] >>,
     metadatas |-> << [i \in 1..chunks |-> "metadata"] >>,
     distances |-> << [i \in 1..chunks |-> "distance"] >>]

MinLen(a, b, c) ==
    LET ab == IF Len(a) <= Len(b) THEN Len(a) ELSE Len(b)
    IN IF ab <= Len(c) THEN ab ELSE Len(c)

\* query_knowledge_base from the vector query on: `raises` is the vector
\* store throwing instead of answering
search_user_documents(user_id, query, chunks, raises) ==
    IF raises
    THEN [fn |-> "query_knowledge_base", found |-> FALSE, is_error |-> TRUE,
          total_results |-> 0, user_id |-> user_id, query |-> query,
          search_type |-> "PDF_DOCUMENT_SEARCH", pdf_status |-> "ERROR_OCCURRED"]
    ELSE LET results == query_collection(chunks)
         IN IF results.documents = <<>>
            THEN [fn |-> "query_knowledge_base", found |-> FALSE, is_error |-> FALSE,
                  total_results |-> 0, user_id |-> user_id, query |-> query,
                  search_type |-> "PDF_DOCUMENT_SEARCH", pdf_status |-> "NO_PDFS_FOUND"]
            ELSE [fn |-> "query_knowledge_base", found |-> TRUE, is_error |-> FALSE,
                  total_results |->
                      MinLen(results.documents, results.metadatas, results.distances),
                  user_id |-> user_id, query |-> query,
                  search_type |-> "PDF_DOCUMENT_SEARCH",
                  pdf_status |-> "PDFS_FOUND_AND_SEARCHED"]

apply_query_knowledge_base ==
    /\ fn_in.kind = "retrieval"
    /\ fn_out' = search_user_documents(fn_in.user_id, fn_in.query, fn_in.chunks,
                                       fn_in.raises)
    /\ UNCHANGED <<fn_in, flowVars, ctxVars, toolVars>>

\* query_knowledge_base applied to what the vector store holds for the query
InitRetrieval ==
    /\ FlowIdle
    /\ CtxStart(NoRequests)
    /\ ToolsStart({})
    /\ fn_in \in [kind : {"retrieval"}, user_id : UserIds, query : ReqQueries,
                   chunks : 0..NResults, raises : BOOLEAN]
    /\ fn_out = NoOutput

SpecRetrieval == InitRetrieval /\ [][apply_query_knowledge_base]_vars

(***************************************************************************)
(* Pension projection (project_pension) and its growth chart               *)
(*                                                                         *)
(* Amounts are in hundredths of a currency unit, rates in basis points,    *)
(* growth factors in units of 1/Scale and horizons in sixtieths of a year  *)
(* (a month is 5, a tenth of a year is 6).                                 *)
(***************************************************************************)

Scale == 10000

PerYear == 60

Min(a, b) == IF a <= b THEN a ELSE b

Max(a, b) == IF a >= b THEN a ELSE b

Abs(a) == IF a >= 0 THEN a ELSE 0 - a

\* floor(a * b / d) for d > 0, without forming a * b
MulDiv(a, b, d) == (a \div d) * b + ((a % d) * b) \div d

\* `column or default`: None and 0 both give the default
OrDefault(column, default) ==
    IF IsNull(column) \/ column[1] = 0 THEN default ELSE column[1]

\* (1 + r) ** k for whole k, each product rounded to the nearest 1/Scale
RECURSIVE GrowYears(_, _)
GrowYears(rate, k) ==
    IF k = 0
    THEN Scale
    ELSE (MulDiv(2 * GrowYears(rate, k - 1), Scale + rate, Scale) + 1) \div 2

\* (1 + r) ** x for 0 <= x < 1, x = frac / PerYear: binomial expansion to the
\* second order (the third-order term is about 1/Scale for rates up to 12%)
GrowFraction(rate, frac) ==
    Scale + (frac * rate) \div PerYear
          + (frac * (frac - PerYear) * rate * rate) \div (2 * PerYear * PerYear * Scale)

\* (1 + r) ** n
Growth(rate, n) ==
    MulDiv(GrowYears(rate, n \div PerYear), GrowFraction(rate, n % PerYear), Scale)

\* f"£{x:,.0f}" read back by extract_number: whole currency units
FormatPounds(x) == (x + 50) \div 100

\* the first of the token indices at which a pattern matches, 0 when there
\* is none (re.search)
FirstIndex(matches) ==
    IF matches = {} THEN 0 ELSE CHOOSE i \in matches : \A j \in matches : i <= j

Years(y) == [n |-> y * PerYear, is_int |-> TRUE]

\* tokens are whole words: "retire" and "year(s)" are matched as words
parse_time_period_from_query(query, current_age, retirement_age) ==
    LET in_years(i) == /\ Word(query, i, "retire") /\ Word(query, i + 1, "in")
                       /\ i + 3 <= Len(query) /\ IsNumber(query[i + 2])
                       /\ Lower(query[i + 3]) \in {"year", "years"}
        at_age(i) == /\ Word(query, i, "retire") /\ Word(query, i + 1, "at")
                     /\ Word(query, i + 2, "age")
                     /\ i + 3 <= Len(query) /\ IsNumber(query[i + 3])
        early(i) == /\ Word(query, i, "retire")
                    /\ (Word(query, i + 1, "early") \/ Word(query, i + 1, "soon"))
        next_year(i) == /\ Word(query, i, "retire") /\ Word(query, i + 1, "next")
                        /\ Word(query, i + 2, "year")
        in_months(i) == /\ Word(query, i, "retire") /\ Word(query, i + 1, "in")
                        /\ i + 3 <= Len(query) /\ IsNumber(query[i + 2])
                        /\ Lower(query[i + 3]) \in {"month", "months"}
        p1 == FirstIndex({i \in 1..Len(query) : in_years(i)})
        p2 == FirstIndex({i \in 1..Len(query) : at_age(i)})
        p5 == FirstIndex({i \in 1..Len(query) : in_months(i)})
    IN  IF p1 # 0 THEN Years(IntOf[query[p1 + 2]])
        ELSE IF p2 # 0 THEN Years(Max(0, IntOf[query[p2 + 3]] - current_age))
        ELSE IF FirstIndex({i \in 1..Len(query) : early(i)}) # 0
             THEN Years(Min(5, retirement_age - current_age))
        ELSE IF FirstIndex({i \in 1..Len(query) : next_year(i)}) # 0 THEN Years(1)
        ELSE IF p5 # 0
             THEN [n |-> Max(PerYear \div 10, (IntOf[query[p5 + 2]] * PerYear) \div 12),
                   is_int |-> FALSE]
        ELSE Years(retirement_age - current_age)

DCTypes == {"defined contribution", "dc", "defined contribution plan"}

DBTypes == {"defined benefit", "db", "defined benefit plan"}

TypeLower ==
    "Defined Contribution" :> "defined contribution" @@
    "Defined Benefit" :> "defined benefit" @@ "Hybrid" :> "hybrid"

\* project_pension from the stored record on; `query` is the tool's argument
project_pension_result(pension_data, query) ==
    LET current_savings == OrDefault(pension_data.current_savings, 0)
        annual_income == OrDefault(pension_data.annual_income, 0)
        age == OrDefault(pension_data.age, 0)
        retirement_age_goal == OrDefault(pension_data.retirement_age_goal, 65)
        annual_contribution == OrDefault(pension_data.contribution_amount, 0)
        employer_contribution == OrDefault(pension_data.employer_contribution, 0)
        total_annual_contribution == annual_contribution + employer_contribution
        pension_type == TypeLower[pension_data.pension_type]
        raw_return_rate == OrDefault(pension_data.annual_return_rate, 800)
        annual_return_rate ==
            IF raw_return_rate > Scale THEN raw_return_rate \div 100 ELSE raw_return_rate
        years_to_retirement ==
            IF query # <<>>
            THEN parse_time_period_from_query(query, age, retirement_age_goal)
            ELSE Years(Max(0, retirement_age_goal - age))
        n == years_to_retirement.n
        effective_return_rate ==
            IF n > 20 * PerYear THEN Min(annual_return_rate, 600)
            ELSE IF n > 10 * PerYear THEN Min(annual_return_rate, 700)
            ELSE annual_return_rate
        fv_current == MulDiv(current_savings, Growth(effective_return_rate, n), Scale)
        fv_contributions ==
            IF total_annual_contribution > 0
            THEN MulDiv(total_annual_contribution,
                        Growth(effective_return_rate, n) - Scale, effective_return_rate)
            ELSE 0
        max_reasonable_projection ==
            MulDiv(current_savings, Min(10 * 2 * PerYear, n), 2 * PerYear)
        conservative_return == Min((annual_return_rate * 8) \div 10, 600)
        max_reasonable ==
            MulDiv(current_savings, Min(8 * 5 * PerYear, 2 * n), 5 * PerYear)
        projected_balance ==
            IF pension_type \in DCTypes
            THEN IF n > 0
                 THEN Min(fv_current + fv_contributions, max_reasonable_projection)
                 ELSE current_savings
            ELSE IF pension_type \in DBTypes
            THEN OrDefault(pension_data.projected_pension_amount,
                           MulDiv(annual_income, 6, 10))
            ELSE IF n > 0
                 THEN Min(MulDiv(current_savings, Growth(conservative_return, n), Scale),
                          max_reasonable)
                 ELSE current_savings
        retirement_goal_amount == annual_income * 10
        status ==
            IF age >= retirement_age_goal THEN "At Retirement Age"
            ELSE IF retirement_goal_amount > 0
                    /\ 10 * current_savings >= 8 * retirement_goal_amount
                 THEN "On Track"
            ELSE IF retirement_goal_amount > 0
                    /\ 10 * current_savings >= 5 * retirement_goal_amount
                 THEN "Good Progress"
            ELSE "Needs Attention"
    IN  [fn |-> "project_pension",
         status |-> status,
         current_data |->
             [current_savings |-> FormatPounds(current_savings),
              age |-> age,
              annual_contribution |-> FormatPounds(total_annual_contribution),
              pension_type |-> pension_data.pension_type],
         projection_analysis |->
             [years_to_retirement |-> years_to_retirement,
              projected_balance |-> FormatPounds(projected_balance)],
         effective_return_rate |->
             IF pension_type \in DCTypes /\ n > 0 THEN << effective_return_rate >> ELSE <<>>,
         fv_contributions |->
             IF pension_type \in DCTypes /\ n > 0 THEN << fv_contributions >> ELSE <<>>,
         visualized |-> FALSE,
         pension_growth |-> <<>>]

\* the visualizer's pension_growth data for a project_pension observation: the
\* projected_value of each point, for year = 0 .. years_to_retirement
pension_growth_data(projection_data) ==
    LET current_savings == projection_data.current_data.current_savings * 100
        annual_contribution == projection_data.current_data.annual_contribution * 100
        years_to_retirement == projection_data.projection_analysis.years_to_retirement
        annual_return_rate == 910
        last == years_to_retirement.n \div PerYear
    IN  [year \in 0..last |->
            IF year = 0
            THEN current_savings
            ELSE MulDiv(current_savings, GrowYears(annual_return_rate, year), Scale)
                 + MulDiv(annual_contribution,
                          GrowYears(annual_return_rate, year) - Scale, annual_return_rate)]

StoredPensionData ==
    [current_savings : {<<0>>, <<1000000>>, <<2000000>>},
     annual_income : {<<3000000>>},
     age : {<<40>>, <<60>>, <<65>>},
     retirement_age_goal : {<<>>},
     contribution_amount : {<<>>, <<200000>>},
     employer_contribution : {<<0>>, <<100000>>},
     annual_return_rate : {<<>>, <<0>>, <<500>>, <<800>>, <<80000>>},
     pension_type : {"Defined Contribution", "Defined Benefit", "Hybrid"},
     projected_pension_amount : {<<>>, <<1500000>>}]

TimeQueries ==
    { <<>>,
      <<"when", "can", "i", "retire">>,
      <<"retire", "in", "2", "years">>,
      <<"retire", "in", "10", "years">>,
      <<"retire", "in", "18", "months">>,
      <<"retire", "at", "age", "62">>,
      <<"retire", "early">>,
      <<"retire", "next", "year">> }

apply_project_pension ==
    /\ fn_in.kind = "projection"
    /\ fn_out = NoOutput
    /\ fn_out' = project_pension_result(fn_in.pension_data, fn_in.query)
    /\ UNCHANGED <<fn_in, flowVars, ctxVars, toolVars>>

\* the visualizer charts the observation; range(years_to_retirement + 1) raises
\* TypeError on a float horizon and the chart is then not made
visualize_projection ==
    /\ fn_out.fn = "project_pension"
    /\ ~ fn_out.visualized
    /\ fn_out' =
         [fn_out EXCEPT
            !.visualized = TRUE,
            !.pension_growth =
                IF fn_out.projection_analysis.years_to_retirement.is_int
                THEN LET data == pension_growth_data(fn_out)
                     IN << data[fn_out.projection_analysis.years_to_retirement.n
                                \div PerYear] >>
                ELSE <<>>]
    /\ UNCHANGED <<fn_in, flowVars, ctxVars, toolVars>>

\* project_pension applied to a stored record, then charted
InitProjection ==
    /\ FlowIdle
    /\ CtxStart(NoRequests)
    /\ ToolsStart({})
    /\ fn_in \in [kind : {"projection"}, pension_data : StoredPensionData, query : TimeQueries]
    /\ fn_out = NoOutput

NextProjection ==
    \/ apply_project_pension
    \/ visualize_projection

SpecProjection == InitProjection /\ [][NextProjection]_vars

(***************************************************************************)
(* The supervisor chain applied to one query and one router outcome        *)
(***************************************************************************)

\* the router is invoked only past the keyword scan and the content check
RouterInvoked(q) == ~ HasPdfKeyword(q) /\ validate_query_content(q)

apply_supervisor_chain ==
    /\ fn_in.kind = "routing"
    /\ fn_out = NoOutput
    /\ fn_out' = [fn |-> "enhanced_supervisor_with_guardrails",
                  next |-> enhanced_supervisor_with_guardrails(fn_in.query, fn_in.llm),
                  router_invoked |-> RouterInvoked(fn_in.query),
                  router_raised |-> RouterInvoked(fn_in.query) /\ fn_in.llm = "RAISE"]
    /\ UNCHANGED <<fn_in, flowVars, ctxVars, toolVars>>

InitRouting ==
    /\ FlowIdle
    /\ CtxStart(NoRequests)
    /\ ToolsStart({})
    /\ fn_in \in [kind : {"routing"}, query : FlowQueries, llm : RouterValues \cup {"RAISE"}]
    /\ fn_out = NoOutput

SpecRouting == InitRouting /\ [][apply_supervisor_chain]_vars

(***************************************************************************)
(* The role resolver applied to one query of one caller                    *)
(***************************************************************************)

ResolverQueries ==
    ReqQueries \cup { <<"show", "user", "5">>, <<"user", "id", "3">>, <<"my", "id", "1">> }

apply_detect_role_based_context ==
    /\ fn_in.kind = "resolver"
    /\ fn_out = NoOutput
    /\ fn_out' = [fn |-> "detect_role_based_context",
                  result |-> detect_role_based_context(fn_in.query, fn_in.current_user_id)]
    /\ UNCHANGED <<fn_in, flowVars, ctxVars, toolVars>>

InitResolver ==
    /\ FlowIdle
    /\ CtxStart(NoRequests)
    /\ \E pairs \in ClientPairChoices : ToolsStart(pairs)
    /\ fn_in \in [kind : {"resolver"}, query : ResolverQueries, current_user_id : UserIds]
    /\ fn_out = NoOutput

SpecResolver == InitResolver /\ [][apply_detect_role_based_context]_vars

(***************************************************************************)
(* Output-side content gate of the summarizer (apply_content_guardrails)   *)
(***************************************************************************)

Words(ws) == {<<w>> : w \in ws}

\* blocked_patterns of the summarizer: per category, the patterns in order,
\* each one the set of its alternatives (token sequences)
SummaryBlockedPatterns ==
    [religious |->
        << Words({"pray", "prayer", "god", "jesus", "allah", "buddha", "hindu", "islam",
                  "christian", "jewish", "religious", "spiritual", "faith", "blessing",
                  "divine", "heaven", "hell"}),
           Words({"amen", "hallelujah", "om", "namaste", "shalom", "salaam"}),
           Words({"church", "mosque", "temple", "synagogue", "worship", "meditation"}) >>,
     political |->
        << Words({"democrat", "republican", "liberal", "conservative", "left", "right",
                  "wing", "party", "election", "vote", "campaign", "politician", "senator",
                  "congress", "president"}),
           Words({"government", "administration", "policy", "legislation", "bill", "law",
                  "regulation"}),
           Words({"progressive", "moderate", "radical", "extremist", "activist", "protest",
                  "rally"}),
           Words(PoliticStarWords) >>,
     investment_strategy |->
        << { <<"buy", "this", "stock">>, <<"sell", "that", "stock">>,
             <<"invest", "in", "bitcoin">>, <<"buy", "crypto">>, <<"day", "trading">>,
             <<"swing", "trading">> },
           { <<"you", "should", "buy">>, <<"you", "should", "sell">>,
             <<"i", "recommend", "buying">>, <<"i", "recommend", "selling">> },
           { <<"put", "all", "your", "money", "in">>, <<"move", "to", "cash">>,
             <<"market", "timing">>, <<"entry", "point">>, <<"exit", "point">> },
           { <<"hedge", "fund">>, <<"private", "equity">>, <<"venture", "capital">> }
             \cup Words({"startup", "ico", "token", "coin"}) >>]

\* the order in which the categories are scanned
SummaryCategories == <<"religious", "political", "investment_strategy">>

\* the alternative `alt` of a pattern matches the text at token i
AltMatchesAt(text, i, alt) ==
    /\ i + Len(alt) - 1 <= Len(text)
    /\ \A j \in 1..Len(alt) : Lower(text[i + j - 1]) = alt[j]

\* re.search(pattern, text.lower())
PatternSearch(text, pattern) ==
    \E i \in 1..Len(text) : \E alt \in pattern : AltMatchesAt(text, i, alt)

CategoryMatches(text, category) ==
    \E k \in 1..Len(SummaryBlockedPatterns[category]) :
        PatternSearch(text, SummaryBlockedPatterns[category][k])

\* replacement_text: the category's own name sits in the middle of it
ReplacementText(category) ==
    <<"[i cannot provide advice related to]", category, "[here is the financial data]">>

\* re.sub(pattern, replacement, text, flags=re.IGNORECASE) from token i on:
\* matches are replaced left to right and the replacement is not rescanned
RECURSIVE SubFrom(_, _, _, _)
SubFrom(text, i, pattern, replacement) ==
    IF i > Len(text) THEN <<>>
    ELSE IF \E alt \in pattern : AltMatchesAt(text, i, alt)
         THEN LET alt == CHOOSE a \in pattern : AltMatchesAt(text, i, a)
              IN replacement \o SubFrom(text, i + Len(alt), pattern, replacement)
    ELSE <<text[i]>> \o SubFrom(text, i + 1, pattern, replacement)

\* the patterns of the blocked category are substituted one after the other
RECURSIVE SubAll(_, _, _)
SubAll(text, category, k) ==
    IF k > Len(SummaryBlockedPatterns[category]) THEN text
    ELSE SubAll(SubFrom(text, 1, SummaryBlockedPatterns[category][k],
                        ReplacementText(category)),
                category, k + 1)

apply_content_guardrails(text) ==
    LET hit == {c \in 1..Len(SummaryCategories) : CategoryMatches(text, SummaryCategories[c])}
    IN IF hit = {} THEN text
       ELSE LET blocked_category ==
                    SummaryCategories[CHOOSE c \in hit : \A d \in hit : c <= d]
            IN SubAll(text, blocked_category, 1)

\* longest summary text the language model is seen to return
MaxSummaryLen == 3

SummaryVocabulary == {"pension", "Pray", "amen", "vote", "politics", "coin", "hedge", "fund"}

SummaryTexts == UNION {[1..n -> SummaryVocabulary] : n \in 0..MaxSummaryLen}

apply_summarizer_guardrails ==
    /\ fn_in.kind = "summary"
    /\ fn_out = NoOutput
    /\ fn_out' = [fn |-> "apply_content_guardrails",
                  summary |-> apply_content_guardrails(fn_in.text)]
    /\ UNCHANGED <<fn_in, flowVars, ctxVars, toolVars>>

InitSummary ==
    /\ FlowIdle
    /\ CtxStart(NoRequests)
    /\ ToolsStart({})
    /\ fn_in \in [kind : {"summary"}, text : SummaryTexts]
    /\ fn_out = NoOutput

SpecSummary == InitSummary /\ [][apply_summarizer_guardrails]_vars

(***************************************************************************)
(* Claims                                                                  *)
(***************************************************************************)

\* C1: while a resident's request runs, every per-user tool reads only the
\* pension record, and only the document collection, of the caller's own user
\* id, whatever user_id argument and whatever query it is called with.
C1_ResidentReadsOnlyOwnData ==
    ( /\ call.tool \in PerUserTools
      /\ call.phase = "running"
      /\ UserRole[req[1].caller] = "resident" )
    => /\ call.out.read \in {NoUser, req[1].caller}
       /\ call.out.coll \in {NoUser, req[1].caller}

\* C2: while the request of an advisor whose query names another user id X
\* runs, analyze_risk_profile, detect_fraud and project_pension (called with
\* no user_id argument, so that the caller comes from the request context)
\* read X's record when the pair (caller, X) is in advisor_clients, and the
\* caller's own record when it is not.
C2_AdvisorReadsClientIffPaired ==
    LET caller == req[1].caller
        X == DetectedUserId(req[1].query)
    IN ( /\ call.tool \in RiskFraudTools \cup {"project_pension"}
         /\ call.arg = NoUser
         /\ call.phase = "running"
         /\ UserRole[caller] = "advisor"
         /\ X # NoUser
         /\ X # caller )
       => call.out.read = IF <<caller, X>> \in advisor_clients THEN X ELSE caller

\* C3: with two requests in flight, interleaved in any order, every read of
\* the caller id or of the query made for a request returns that request's own
\* caller id, respectively that request's own query.
C3_ContextReadsOwnValues ==
    last_get # NoGet =>
        /\ last_get.kind = "user" => last_get.user = req[last_get.req].caller
        /\ last_get.kind = "query" => last_get.query = Some(req[last_get.req].query)

\* C4: when the query matches a content-gate pattern, no specialist runs and
\* no tool is invoked: intermediate_steps stays empty, and the first
\* supervisor execution ends the run with next = FINISH and the refusal as
\* the final response's summary.
C4_GateBlocksTools ==
    GateMatches(FirstHumanContent(messages)) =>
        /\ intermediate_steps = <<>>
        /\ invoked = <<>>
        /\ pc \notin Specialists
        /\ last_node \notin Specialists
        /\ supersteps >= 1 =>
              /\ supersteps = 1
              /\ next = "FINISH"
              /\ pc = "END"
              /\ final_response # <<>>
              /\ final_response[1].summary = GuardrailResponse

C4_Witness ==
    /\ GateMatches(FirstHumanContent(messages))
    /\ last_node = "supervisor"
    /\ pc = "END"
    /\ final_response # <<>>

\* C5: every run of the graph ends at END; no run is still cycling through
\* supervisor and visualizer (or a specialist) when the engine's recursion
\* limit stops it.
C5_RunEndsAtEND == pc # "ERROR"

\* C6: turns is at most 5 in every reachable state.
C6_TurnsAtMostFive == turns <= 5

C6_Witness == turns = 5 /\ next = "FINISH" /\ pc = "END"

\* C7: an aggregation tool called while a non-regulator's request runs returns
\* the error "This tool is only available to regulators" and reads no pension
\* record.
C7_AggregationOnlyForRegulators ==
    ( /\ call.tool \in AggregationTools
      /\ call.phase = "running"
      /\ UserRole[req[1].caller] # "regulator" )
    => /\ call.out.result = "This tool is only available to regulators"
       /\ ~ call.out.all
       /\ call.out.read = NoUser

C7_Witness ==
    /\ call.tool \in AggregationTools
    /\ call.phase = "running"
    /\ UserRole[req[1].caller] = "advisor"
    /\ call.out.result = "This tool is only available to regulators"

\* C8: the visualizer node executes at most once in a run.
C8_VisualizerAtMostOnce == vis_runs <= 1

\* C9: no step changes, removes or reorders a recorded entry of
\* intermediate_steps: the old value, and the value at the last supervisor
\* entry, are prefixes of the new one, which lists the tool invocations of the
\* run in invocation order.
C9_StepsAppendOnly ==
    [][ /\ IsPrefix(intermediate_steps, intermediate_steps')
        /\ IsPrefix(sup_seen, intermediate_steps')
        /\ intermediate_steps' = invoked' ]_vars

C9_Witness ==
    /\ Len(intermediate_steps) = 2
    /\ intermediate_steps[1] # intermediate_steps[2]
    /\ sup_seen = intermediate_steps
    /\ pc = "END"

\* C10: after a specialist or the visualizer the node to execute is the
\* supervisor; a node that executes right after a node other than the
\* supervisor is the supervisor; after the summarizer the run is at END and
\* no node executes.
C10_SerialThroughSupervisor ==
    [][ /\ (last_node' \in Specialists \cup {"visualizer"} /\ pc' # "ERROR")
               => pc' = "supervisor"
        /\ last_node' = "summarizer" => pc' = "END"
        /\ supersteps' # supersteps =>
              /\ supersteps' = supersteps + 1
              /\ last_node # "summarizer"
              /\ last_node # "supervisor" => last_node' = "supervisor" ]_vars

C10_Witness ==
    /\ last_node = "summarizer"
    /\ pc = "END"
    /\ vis_runs = 1
    /\ intermediate_steps # <<>>

\* C11: a run in which the supervisor's counter reached the cap still ends
\* through the summarizer, with the summarizer's final_response.
C11_TurnCapRoutesToSummarizer ==
    (turns >= TurnCap /\ pc = "END") =>
        /\ last_node = "summarizer"
        /\ final_response # <<>>

\* C12: once the /prompt handler has ended, by a normal return or by an
\* exception turned into HTTP 500, the context variable and the module-level
\* fallback of the user id and of the query are None, every later read of the
\* context finds no caller and no query, and a tool called without a user_id
\* argument answers that the user is not authenticated.
C12_ContextClearedOnEveryExit ==
    req[1].phase \in ExitPhases =>
        /\ ctx_user[1] = NoUser /\ ctx_query[1] = NoQuery
        /\ g_user = NoUser /\ g_query = NoQuery
        /\ \A r \in Reqs : /\ get_current_user_id_from_context(r) = NoUser
                           /\ get_current_query_from_context(r) = NoQuery
        /\ (call.phase \in ExitPhases /\ call.arg = NoUser /\ call.tool # "none")
              => call.out.result = "User not authenticated. Please log in."

C12_Witness ==
    /\ req[1].phase = "failed"
    /\ call.phase = "failed"
    /\ call.tool = "analyze_risk_profile"
    /\ call.out.result = "User not authenticated. Please log in."

\* C13: for an advisor and a query naming an id X that is not one of the
\* advisor's clients, the resolver answers (advisor, "self") whether X is a
\* user with a pension record, a user without one or no user at all, and a
\* document tool called with such a query during the advisor's request reads
\* the advisor's own collection and nothing else.
C13_ScopeDenialIsSilent ==
    /\ \A a \in DOMAIN UserRole, q \in ReqQueries :
          LET X == DetectedUserId(q)
          IN (UserRole[a] = "advisor" /\ X # NoUser /\ X # a
                /\ <<a, X>> \notin advisor_clients)
             => detect_role_based_context(q, a) = <<a, "self">>
    /\ LET a == req[1].caller
           X == DetectedUserId(call.query)
       IN ( /\ call.tool \in DocumentTools
            /\ call.phase = "running"
            /\ call.arg \in {NoUser, a}
            /\ UserRole[a] = "advisor"
            /\ X # NoUser /\ X # a
            /\ <<a, X>> \notin advisor_clients )
          => call.out = Outcome(a, NoUser, FALSE, a, call.tool = "knowledge_base_search",
                                "searched")

\* the advisor asks about id 6, which is no user, while user 2, who has a
\* pension record, is not a client either
C13_Witness ==
    /\ call.tool = "query_knowledge_base"
    /\ call.phase = "running"
    /\ req[1].caller = 3
    /\ DetectedUserId(call.query) = 6
    /\ 6 \notin DOMAIN UserRole
    /\ 2 \in PensionRows
    /\ <<3, 2>> \notin advisor_clients
    /\ call.out.coll = 3

\* C14: when query_knowledge_base ran in a run that ended through the
\* summarizer, the response of /prompt carries the search_type of that tool's
\* observation ("PDF_DOCUMENT_SEARCH") and one of its pdf_status values.
C14_RetrievalFieldsPropagated ==
    ( /\ pc = "END"
      /\ last_node = "summarizer"
      /\ HasTool(intermediate_steps, "query_knowledge_base") )
    => /\ PromptResponse.search_type = "PDF_DOCUMENT_SEARCH"
       /\ PromptResponse.pdf_status \in PdfStatuses

\* C15: predict_risk and predict_fraud never raise, and when the model is
\* not there or throws they return the rule-based result with
\* ml_model_used = false, for every record, NULL fields included.
C15_PredictNeverRaises ==
    fn_out.fn \in {"predict_risk", "predict_fraud"} =>
        /\ ~ fn_out.raised
        /\ fn_in.model # "predicts" =>
              /\ ~ fn_out.ml_success
              /\ ~ fn_out.result.ml_model_used
              /\ fn_out.result.analysis_method = "Rule-based Fallback"

\* C16: a per-user tool answers "User not authenticated" exactly when it is
\* called without a user_id argument while no request has put a caller in the
\* context, and in that case it reads no pension record and no collection.
C16_NotAuthenticatedIffNoId ==
    call.tool \in PerUserTools =>
        /\ (call.out.result = "User not authenticated. Please log in.")
              <=> (call.arg = NoUser /\ call.phase # "running")
        /\ (call.out.result = "User not authenticated. Please log in.")
              => (call.out.read = NoUser /\ call.out.coll = NoUser /\ ~ call.out.shared)

\* C17: when the vector query returns no document chunk, query_knowledge_base
\* returns found = false with pdf_status "NO_PDFS_FOUND", and it reports
\* "PDFS_FOUND_AND_SEARCHED" only when at least one chunk was returned.
C17_RetrievalMissIsNotFound ==
    (fn_out.fn = "query_knowledge_base" /\ ~ fn_in.raises) =>
        /\ fn_in.chunks = 0 => (~ fn_out.found /\ fn_out.pdf_status = "NO_PDFS_FOUND")
        /\ fn_out.pdf_status = "PDFS_FOUND_AND_SEARCHED" => fn_in.chunks >= 1

\* C18: on a Defined Contribution record with horizon n (0 and fractional
\* horizons included), projected_balance is at most
\* current_savings * min(10, n * 0.5), up to rounding.
C18_ProjectionWithinCap ==
    (fn_out.fn = "project_pension"
        /\ fn_out.current_data.pension_type = "Defined Contribution") =>
        fn_out.projection_analysis.projected_balance * 100
            <= MulDiv(OrDefault(fn_in.pension_data.current_savings, 0),
                      Min(10 * 2 * PerYear,
                          fn_out.projection_analysis.years_to_retirement.n),
                      2 * PerYear) + 100

\* C19: whenever the visualizer charts a project_pension observation, the last
\* point of the pension_growth curve is within 1000 currency units of
\* projection_analysis.projected_balance.
C19_ChartEndsAtProjection ==
    (fn_out.fn = "project_pension" /\ fn_out.visualized /\ fn_out.pension_growth # <<>>) =>
        Abs(fn_out.pension_growth[1]
            - fn_out.projection_analysis.projected_balance * 100) <= 1000 * 100

\* C20: for a record whose stored annual_return_rate is 0, with positive
\* contributions and a horizon n > 0, the contribution future value that
\* project_pension computes is contribution * n.
C20_ZeroRateContributionsAreLinear ==
    (fn_out.fn = "project_pension"
        /\ fn_in.pension_data.annual_return_rate = <<0>>
        /\ fn_out.fv_contributions # <<>>
        /\ fn_out.current_data.annual_contribution > 0) =>
        Abs(fn_out.fv_contributions[1]
            - MulDiv(fn_out.current_data.annual_contribution * 100,
                     fn_out.projection_analysis.years_to_retirement.n, PerYear)) <= 100


\* C21: when a record's age equals its retirement_age_goal, project_pension
\* returns projected_balance equal to current_savings and status
\* "At Retirement Age", for every pension type and every query text.
C21_AtRetirementAgeReturnsSavings ==
    (fn_out.fn = "project_pension"
        /\ OrDefault(fn_in.pension_data.age, 0)
             = OrDefault(fn_in.pension_data.retirement_age_goal, 65)) =>
        /\ fn_out.status = "At Retirement Age"
        /\ fn_out.projection_analysis.projected_balance
             = fn_out.current_data.current_savings

\* C22: when the LLM routing call fails, the supervisor falls back to
\* projection_specialist, for every query that passed the content gate.
C22_RoutingErrorFallsBackToProjection ==
    (fn_out.fn = "enhanced_supervisor_with_guardrails"
        /\ ~ GateMatches(fn_in.query)
        /\ fn_out.router_raised) =>
        fn_out.next = "projection_specialist"

\* C23: for every caller that exists in the user table, of any role, a query
\* whose only number is the caller's own id makes the resolver return
\* (caller id, "self").
C23_OwnIdResolvesToSelf ==
    (fn_out.fn = "detect_role_based_context"
        /\ fn_in.current_user_id \in DOMAIN UserRole
        /\ (\E i \in 1..Len(fn_in.query) : IsNumber(fn_in.query[i]))
        /\ (\A i \in 1..Len(fn_in.query) :
               IsNumber(fn_in.query[i]) => IntOf[fn_in.query[i]] = fn_in.current_user_id)) =>
        fn_out.result = <<fn_in.current_user_id, "self">>

\* C24: turns is incremented by exactly 1 on each entry of the supervisor
\* node, including re-entries after a specialist or the visualizer and the
\* entry on which the content gate fires.
C24_TurnsCountsSupervisorEntries ==
    [][(pc = "supervisor" /\ last_node' = "supervisor" /\ supersteps' = supersteps + 1)
          => turns' = turns + 1]_vars

\* C25: on the supervisor's first entry, every query that passes the content
\* gate and contains one of the document keywords is routed to
\* projection_specialist, whatever the LLM router would answer.
C25_DocumentKeywordRoutesToProjection ==
    [][(pc = "supervisor" /\ supersteps = 0 /\ supersteps' = 1
          /\ ~ GateMatches(FirstHumanContent(messages))
          /\ HasPdfKeyword(FirstHumanContent(messages)))
          => next' = "projection_specialist" /\ pc' = "projection_specialist"]_vars

C25_Witness ==
    /\ supersteps = 1
    /\ last_node = "supervisor"
    /\ ~ GateMatches(FirstHumanContent(messages))
    /\ HasPdfKeyword(FirstHumanContent(messages))
    /\ next = "projection_specialist"
    /\ turns = 1

\* C26: when intermediate_steps holds several observations of the same tool,
\* the visualizer builds its charts from the most recent one: a tool's chart
\* is made exactly when the last observation of that tool is chartable.
C26_ChartsFromMostRecentObservation ==
    LET LastObservation(tool) ==
            LET idx == {i \in 1..Len(intermediate_steps) : intermediate_steps[i].tool = tool}
            IN IF idx = {} THEN None
               ELSE intermediate_steps[CHOOSE i \in idx : \A j \in idx : i >= j].obs
    IN (last_node = "visualizer" /\ user_wants_charts(messages)) =>
          /\ "risk" \in charts <=> LastObservation("analyze_risk_profile") = "chartable"
          /\ "fraud" \in charts <=> LastObservation("detect_fraud") = "chartable"
          /\ "pension_growth" \in charts <=> LastObservation("project_pension") = "chartable"

\* C27: for a Defined Contribution record with stored rate 0.08 and a parsed
\* horizon of exactly 10 years, project_pension uses effective rate 0.07.
C27_TenYearHorizonUsesSevenPercent ==
    (fn_out.fn = "project_pension"
        /\ fn_out.current_data.pension_type = "Defined Contribution"
        /\ fn_in.pension_data.annual_return_rate = <<800>>
        /\ fn_out.projection_analysis.years_to_retirement = Years(10)) =>
        fn_out.effective_return_rate = <<700>>

\* C28: after the summarizer's output-side gate has run, the returned summary
\* matches no blocked pattern of any of the three categories, and applying
\* apply_content_guardrails to it again changes nothing.
C28_GatedSummaryIsClean ==
    fn_out.fn = "apply_content_guardrails" =>
        /\ \A c \in 1..Len(SummaryCategories) :
              ~ CategoryMatches(fn_out.summary, SummaryCategories[c])
        /\ apply_content_guardrails(fn_out.summary) = fn_out.summary

\* C29: every run that terminates, by any path, ends with final_response set
\* to an object holding a summary, so /prompt never answers with the
\* placeholder 'No summary available'.
C29_TerminatedRunHasSummary ==
    pc = "END" =>
        /\ final_response # <<>>
        /\ PromptResponse.summary # <<"No summary available">>

\* C30: every tool invocation that opens a database session closes it before
\* returning, on every return path; after any sequence of tool calls the
\* number of open sessions is zero.
C30_NoSessionLeftOpen == open_sessions = 0

====
